---- MODULE Spec2Model ----
(***************************************************************************)
(* Model of examples/graph/ipynb/mpnn-molecular-graphs.ipynb:              *)
(* featurizers, graph_from_molecule, graphs_from_smiles, prepare_batch,    *)
(* MPNNDataset, EdgeNetwork and MessagePassing.                            *)
(*                                                                         *)
(* Conventions.  A numpy / tensorflow array is a sequence; row i of the    *)
(* code (0-based) is element i + 1 of the sequence.  Index VALUES stored   *)
(* in arrays (pair_indices, atom_partition_indices, feature slots) keep    *)
(* the code's 0-based numbering.  The floats 0.0 and 1.0 of the feature    *)
(* vectors are the integers 0 and 1; the node states of MessagePassing     *)
(* are the expressions the code evaluates (see EdgeNetwork).               *)
(***************************************************************************)
EXTENDS Integers, Sequences, FiniteSets, TLC

VARIABLES
    pc,                  \* position of the script
    smiles_list,         \* graphs_from_smiles: the rows (molecules) to convert
    atom_features_list,  \* graphs_from_smiles: accumulated node matrices
    bond_features_list,  \* graphs_from_smiles: accumulated edge matrices
    pair_indices_list,   \* graphs_from_smiles: accumulated edge index lists
    y,                   \* labels of the rows of smiles_list (df.p_np)
    batch_size,          \* MPNNDataset(batch_size=...)
    batch_no,            \* number of batches already mapped by prepare_batch
    batch,               \* last output of prepare_batch (or NoBatch)
    molecule,            \* graph_from_molecule: its argument
    graph,               \* graph_from_molecule: its return value
    enc_in,              \* Featurizer.encode: the item being encoded
    enc_out,             \* Featurizer.encode: the returned vector
    mp_weights,          \* MessagePassing: what build has set (atom_dim,
                         \* pad_length, the shapes of the weights)
    mp_inputs,           \* MessagePassing.call: its inputs
    mp_i,                \* MessagePassing.call: the loop counter i
    atom_features_updated, \* MessagePassing.call: the running node states
    atom_features_aggregated, \* MessagePassing.call: the last aggregate
    pp_inputs,           \* PartitionPadding.call: its inputs
    atom_features_padded, \* PartitionPadding.call: the stacked padded tensor
    x_partitioned,       \* PartitionPadding.call: the returned tensor
    flag,                \* molecule_from_smiles: result of the first pass
    sanitize_calls       \* the sanitizeOps of each Chem.SanitizeMol call made

vars == <<pc, smiles_list, atom_features_list, bond_features_list,
          pair_indices_list, y, batch_size, batch_no, batch, molecule, graph,
          enc_in, enc_out, mp_weights, mp_inputs, mp_i,
          atom_features_updated, atom_features_aggregated,
          pp_inputs, atom_features_padded, x_partitioned, flag,
          sanitize_calls>>

-----------------------------------------------------------------------------
(* Generic sequence helpers (python list / numpy idioms).                  *)

RECURSIVE Flatten(_)
\* merge_dims(outer_axis=0, inner_axis=1): concatenate the rows of a ragged list
Flatten(ss) == IF ss = <<>> THEN <<>> ELSE Head(ss) \o Flatten(Tail(ss))

RECURSIVE SumSeq(_)
SumSeq(s) == IF s = <<>> THEN 0 ELSE Head(s) + SumSeq(Tail(s))

\* np.zeros((n,))
np_zeros(n) == [i \in 1..n |-> 0]

-----------------------------------------------------------------------------
(* Python ordering of the vocabulary values, as used by sorted().          *)
(* A string is ordered by its code points, an int by its value, and        *)
(* False < True.  Each value is given by its comparison key.               *)

StrCodes ==
    ("B" :> <<66>>) @@ ("Br" :> <<66, 114>>) @@ ("C" :> <<67>>) @@
    ("Ca" :> <<67, 97>>) @@ ("Cl" :> <<67, 108>>) @@ ("F" :> <<70>>) @@
    ("H" :> <<72>>) @@ ("I" :> <<73>>) @@ ("N" :> <<78>>) @@
    ("Na" :> <<78, 97>>) @@ ("O" :> <<79>>) @@ ("P" :> <<80>>) @@
    ("S" :> <<83>>) @@
    ("s" :> <<115>>) @@ ("sp" :> <<115, 112>>) @@
    ("sp2" :> <<115, 112, 50>>) @@ ("sp3" :> <<115, 112, 51>>) @@
    ("single" :> <<115, 105, 110, 103, 108, 101>>) @@
    ("double" :> <<100, 111, 117, 98, 108, 101>>) @@
    ("triple" :> <<116, 114, 105, 112, 108, 101>>) @@
    ("aromatic" :> <<97, 114, 111, 109, 97, 116, 105, 99>>)

StrKey(v) == StrCodes[v]
IntKey(v) == <<v>>
BoolKey(v) == <<IF v THEN 1 ELSE 0>>

PyKey(kind, v) ==
    CASE kind = "str" -> StrKey(v)
      [] kind = "int" -> IntKey(v)
      [] kind = "bool" -> BoolKey(v)

\* a < b for two comparison keys (lexicographic, a proper prefix is smaller)
LexLess(a, b) ==
    \E k \in 1..Len(b) :
        /\ k <= Len(a) + 1
        /\ \A j \in 1..(k - 1) : a[j] = b[j]
        /\ (k = Len(a) + 1 \/ a[k] < b[k])

RECURSIVE sorted(_, _)
\* sorted(list(s)) for a set s of values of one kind
sorted(s, kind) ==
    IF s = {} THEN <<>>
    ELSE LET m == CHOOSE x \in s :
                    \A z \in s \ {x} : LexLess(PyKey(kind, x), PyKey(kind, z))
         IN  <<m>> \o sorted(s \ {m}, kind)

\* position (1-based) of v in the sequence s
IndexOf(s, v) == CHOOSE i \in 1..Len(s) : s[i] = v

-----------------------------------------------------------------------------
(* Featurizer                                                              *)

\* str.lower() on the enum names of rdkit's HybridizationType and BondType
str_lower ==
    ("UNSPECIFIED" :> "unspecified") @@ ("S" :> "s") @@ ("SP" :> "sp") @@
    ("SP2" :> "sp2") @@ ("SP3" :> "sp3") @@ ("SP2D" :> "sp2d") @@
    ("SP3D" :> "sp3d") @@ ("SP3D2" :> "sp3d2") @@ ("OTHER" :> "other") @@
    ("SINGLE" :> "single") @@ ("DOUBLE" :> "double") @@
    ("TRIPLE" :> "triple") @@ ("AROMATIC" :> "aromatic") @@
    ("QUADRUPLE" :> "quadruple") @@ ("DATIVE" :> "dative") @@
    ("ZERO" :> "zero")

\* AtomFeaturizer.symbol / n_valence / n_hydrogens / hybridization
symbol(atom) == atom.GetSymbol
n_valence(atom) == atom.GetTotalValence
n_hydrogens(atom) == atom.GetTotalNumHs
hybridization(atom) == str_lower[atom.GetHybridization]

\* BondFeaturizer.bond_type / conjugated
bond_type(bond) == str_lower[bond.GetBondType]
conjugated(bond) == bond.GetIsConjugated

\* getattr(self, name_feature)(inputs)
getattr_call(name_feature, inputs) ==
    CASE name_feature = "symbol" -> symbol(inputs)
      [] name_feature = "n_valence" -> n_valence(inputs)
      [] name_feature = "n_hydrogens" -> n_hydrogens(inputs)
      [] name_feature = "hybridization" -> hybridization(inputs)
      [] name_feature = "bond_type" -> bond_type(inputs)
      [] name_feature = "conjugated" -> conjugated(inputs)

\* slip: the running offset dim is left out of the range
dict_zip_range_no_offset(s, dim) ==
    [v \in {s[i] : i \in 1..Len(s)} |-> IndexOf(s, v) - 1]

\* dict(zip(s, range(dim, len(s) + dim)))
dict_zip_range(s, dim) ==
    [v \in {s[i] : i \in 1..Len(s)} |-> dim + IndexOf(s, v) - 1]

RECURSIVE Featurizer_init_loop(_, _, _)
\* the loop of Featurizer.__init__ over allowable_sets.items()
Featurizer_init_loop(items, dim, features_mapping) ==
    IF items = <<>>
    THEN [dim |-> dim, features_mapping |-> features_mapping]
    ELSE LET k == Head(items).name
             s == sorted(Head(items).values, Head(items).kind)
         IN  Featurizer_init_loop(
                 Tail(items),
                 dim + Len(s),
                 Append(features_mapping,
                        [name |-> k, mapping |-> dict_zip_range(s, dim)]))

\* Featurizer.__init__(allowable_sets): self.dim and self.features_mapping
Featurizer_init(allowable_sets) == Featurizer_init_loop(allowable_sets, 0, <<>>)

RECURSIVE Featurizer_encode_loop_break(_, _, _)
\* slip: "break" in place of "continue" on an out-of-vocabulary value
Featurizer_encode_loop_break(items, inputs, output) ==
    IF items = <<>> THEN output
    ELSE LET feature_mapping == Head(items).mapping
             feature == getattr_call(Head(items).name, inputs)
         IN  IF feature \notin DOMAIN feature_mapping
             THEN output
             ELSE Featurizer_encode_loop_break(
                      Tail(items), inputs,
                      [output EXCEPT ![feature_mapping[feature] + 1] = 1])

RECURSIVE Featurizer_encode_loop(_, _, _)
\* the loop of Featurizer.encode over self.features_mapping.items()
Featurizer_encode_loop(items, inputs, output) ==
    IF items = <<>> THEN output
    ELSE LET feature_mapping == Head(items).mapping
             feature == getattr_call(Head(items).name, inputs)
         IN  IF feature \notin DOMAIN feature_mapping
             THEN Featurizer_encode_loop(Tail(items), inputs, output)
             ELSE Featurizer_encode_loop(
                      Tail(items), inputs,
                      [output EXCEPT ![feature_mapping[feature] + 1] = 1])

\* Featurizer.encode(self, inputs)
Featurizer_encode(self, inputs) ==
    Featurizer_encode_loop(self.features_mapping, inputs, np_zeros(self.dim))

\* slip: "self.dim += 1" is left out
BondFeaturizer_init_no_extra_slot(allowable_sets) ==
    Featurizer_init(allowable_sets)

\* AtomFeaturizer.__init__: super().__init__(allowable_sets)
AtomFeaturizer_init(allowable_sets) == Featurizer_init(allowable_sets)

\* BondFeaturizer.__init__: super().__init__(allowable_sets); self.dim += 1
BondFeaturizer_init(allowable_sets) ==
    LET self == Featurizer_init(allowable_sets)
    IN  [self EXCEPT !.dim = self.dim + 1]

\* python None, passed as the bond of a self-loop
None == [is_none |-> TRUE]

\* BondFeaturizer.encode(self, bond)
BondFeaturizer_encode(self, bond) ==
    IF bond = None
    THEN [np_zeros(self.dim) EXCEPT ![self.dim] = 1]
    ELSE Featurizer_encode(self, bond)

atom_allowable_sets ==
    << [name |-> "symbol", kind |-> "str",
        values |-> {"B", "Br", "C", "Ca", "Cl", "F", "H", "I", "N", "Na",
                    "O", "P", "S"}],
       [name |-> "n_valence", kind |-> "int", values |-> 0..6],
       [name |-> "n_hydrogens", kind |-> "int", values |-> 0..4],
       [name |-> "hybridization", kind |-> "str",
        values |-> {"s", "sp", "sp2", "sp3"}] >>

bond_allowable_sets ==
    << [name |-> "bond_type", kind |-> "str",
        values |-> {"single", "double", "triple", "aromatic"}],
       [name |-> "conjugated", kind |-> "bool", values |-> {TRUE, FALSE}] >>

atom_featurizer == AtomFeaturizer_init(atom_allowable_sets)
bond_featurizer == BondFeaturizer_init(bond_allowable_sets)

-----------------------------------------------------------------------------
(* Molecules (rdkit Mol): atoms in index order, bonds in the order rdkit   *)
(* stores them.  Atom index GetIdx() of atoms[i] is i - 1.                 *)

\* molecule.GetAtoms() as the sequence of atom indices
GetAtomIdxs(mol) == [i \in 1..Len(mol.atoms) |-> i - 1]

RECURSIVE NeighborsLoop(_, _)
NeighborsLoop(bonds, idx) ==
    IF bonds = <<>> THEN <<>>
    ELSE LET b == Head(bonds)
             rest == NeighborsLoop(Tail(bonds), idx)
         IN  IF b.begin = idx THEN <<b.end>> \o rest
             ELSE IF b.end = idx THEN <<b.begin>> \o rest
             ELSE rest

\* slip: only the bonds that begin at the atom are followed
GetNeighbors_begin_only(mol, idx) ==
    NeighborsLoop(SelectSeq(mol.bonds, LAMBDA b : b.begin = idx), idx)

\* atom.GetNeighbors(): the other end of each bond of the atom, in bond order
GetNeighbors(mol, idx) == NeighborsLoop(mol.bonds, idx)

\* molecule.GetBondBetweenAtoms(i, j): the bond joining i and j, or None
GetBondBetweenAtoms(mol, i, j) ==
    LET hits == {k \in 1..Len(mol.bonds) :
                    \/ (mol.bonds[k].begin = i /\ mol.bonds[k].end = j)
                    \/ (mol.bonds[k].begin = j /\ mol.bonds[k].end = i)}
    IN  IF hits = {} THEN None
        ELSE mol.bonds[CHOOSE k \in hits : \A l \in hits : k <= l]

-----------------------------------------------------------------------------
(* graph_from_molecule                                                     *)

RECURSIVE graph_neighbor_loop_reversed(_, _, _, _)
\* slip: the edge is appended as (neighbor, atom)
graph_neighbor_loop_reversed(mol, idx, atom_neighbors, g) ==
    IF atom_neighbors = <<>> THEN g
    ELSE LET neighbor == Head(atom_neighbors)
             bond == GetBondBetweenAtoms(mol, idx, neighbor)
         IN  graph_neighbor_loop_reversed(
                 mol, idx, Tail(atom_neighbors),
                 [g EXCEPT
                    !.pair_indices = Append(@, <<neighbor, idx>>),
                    !.bond_features =
                        Append(@, BondFeaturizer_encode(bond_featurizer, bond))])

RECURSIVE graph_neighbor_loop(_, _, _, _)
\* "for neighbor in atom_neighbors": appends one edge per neighbor
graph_neighbor_loop(mol, idx, atom_neighbors, g) ==
    IF atom_neighbors = <<>> THEN g
    ELSE LET neighbor == Head(atom_neighbors)
             bond == GetBondBetweenAtoms(mol, idx, neighbor)
         IN  graph_neighbor_loop(
                 mol, idx, Tail(atom_neighbors),
                 [g EXCEPT
                    !.pair_indices = Append(@, <<idx, neighbor>>),
                    !.bond_features =
                        Append(@, BondFeaturizer_encode(bond_featurizer, bond))])

RECURSIVE graph_atom_loop(_, _, _)
\* "for atom in molecule.GetAtoms()": node row, self-loop, then the neighbors
graph_atom_loop(mol, idxs, g) ==
    IF idxs = <<>> THEN g
    ELSE LET idx == Head(idxs)
             g1 == [g EXCEPT
                      !.atom_features =
                          Append(@, Featurizer_encode(atom_featurizer,
                                                      mol.atoms[idx + 1])),
                      !.pair_indices = Append(@, <<idx, idx>>),
                      !.bond_features =
                          Append(@, BondFeaturizer_encode(bond_featurizer, None))]
         IN  graph_atom_loop(
                 mol, Tail(idxs),
                 graph_neighbor_loop(mol, idx, GetNeighbors(mol, idx), g1))

\* graph_from_molecule(molecule) -> (atom_features, bond_features, pair_indices)
graph_from_molecule(mol) ==
    graph_atom_loop(mol, GetAtomIdxs(mol),
                    [atom_features |-> <<>>, bond_features |-> <<>>,
                     pair_indices |-> <<>>])

-----------------------------------------------------------------------------
(* Tensor operations used by prepare_batch.                                *)

\* ragged.row_lengths()
row_lengths(ragged) == [i \in 1..Len(ragged) |-> Len(ragged[i])]

\* tf.range(n)
tf_range(n) == [i \in 1..n |-> i - 1]

\* x[:-1]
DropLast(x) == SubSeq(x, 1, Len(x) - 1)

\* x[1:]
DropFirst(x) == SubSeq(x, 2, Len(x))

RECURSIVE tf_repeat(_, _)
\* tf.repeat(input, repeats): input[i] repeated repeats[i] times, in order
tf_repeat(input, repeats) ==
    IF input = <<>> THEN <<>>
    ELSE [j \in 1..Head(repeats) |-> Head(input)]
             \o tf_repeat(Tail(input), Tail(repeats))

\* slip: exclusive cumulative sum
tf_cumsum_exclusive(x) == [i \in 1..Len(x) |-> SumSeq(SubSeq(x, 1, i - 1))]

\* tf.cumsum(x)
tf_cumsum(x) == [i \in 1..Len(x) |-> SumSeq(SubSeq(x, 1, i))]

\* tf.gather(params, indices) for 0-based indices
tf_gather(params, indices) == [k \in 1..Len(indices) |-> params[indices[k] + 1]]

\* tf.pad(x, [(before, 0)])
tf_pad_before(x, before) == [j \in 1..before |-> 0] \o x

\* ragged.to_tensor(): rows padded with 0 to the longest row
to_tensor(rows) ==
    LET w == IF rows = <<>> THEN 0
             ELSE CHOOSE m \in {Len(rows[i]) : i \in 1..Len(rows)} :
                      \A i \in 1..Len(rows) : Len(rows[i]) <= m
    IN  [i \in 1..Len(rows) |->
            [j \in 1..w |-> IF j <= Len(rows[i]) THEN rows[i][j] ELSE 0]]

\* slip: the increment reaches the first column only
add_increment_first_column(pair_indices, increment) ==
    [k \in 1..Len(pair_indices) |->
        [c \in 1..Len(pair_indices[k]) |->
            IF c = 1 THEN pair_indices[k][c] + increment[k]
            ELSE pair_indices[k][c]]]

\* pair_indices + increment[:, tf.newaxis]
add_increment(pair_indices, increment) ==
    [k \in 1..Len(pair_indices) |->
        [c \in 1..Len(pair_indices[k]) |-> pair_indices[k][c] + increment[k]]]

\* slip: the node counts are taken from num_atoms[1:] in place of [:-1]
batch_increment_shifted(num_atoms, num_bonds) ==
    LET molecule_indices == tf_range(Len(num_atoms))
        bond_partition_indices ==
            tf_repeat(DropLast(molecule_indices), DropFirst(num_bonds))
        increment == [i \in 1..(Len(num_atoms) - 1) |->
                         SumSeq(SubSeq(num_atoms, 2, i + 1))]
    IN  [j \in 1..num_bonds[1] |-> 0]
            \o [k \in 1..Len(bond_partition_indices) |->
                    increment[bond_partition_indices[k] + 1]]

\* slip: no increment is added at all
batch_increment_none(num_atoms, num_bonds) ==
    [k \in 1..SumSeq(num_bonds) |-> 0]

\* slip: the node counts are gathered without the cumulative sum
batch_increment_no_cumsum(num_atoms, num_bonds) ==
    LET molecule_indices == tf_range(Len(num_atoms))
        bond_partition_indices ==
            tf_repeat(DropLast(molecule_indices), DropFirst(num_bonds))
        increment == DropLast(num_atoms)
    IN  [j \in 1..num_bonds[1] |-> 0]
            \o [k \in 1..Len(bond_partition_indices) |->
                    increment[bond_partition_indices[k] + 1]]

\* the 'increment' vector of prepare_batch, one entry per merged edge
batch_increment(num_atoms, num_bonds) ==
    LET molecule_indices == tf_range(Len(num_atoms))
        bond_partition_indices ==
            tf_repeat(DropLast(molecule_indices), DropFirst(num_bonds))
        increment == tf_cumsum(DropLast(num_atoms))
    IN  tf_pad_before(tf_gather(increment, bond_partition_indices), num_bonds[1])

\* slip: graphs numbered from 1
batch_partition_from_one(num_atoms) ==
    tf_repeat([i \in 1..Len(num_atoms) |-> i], num_atoms)

\* atom_partition_indices of prepare_batch
batch_partition(num_atoms) == tf_repeat(tf_range(Len(num_atoms)), num_atoms)

\* prepare_batch(x_batch, y_batch)
prepare_batch(x_batch, y_batch) ==
    LET atom_features == x_batch[1]
        bond_features == x_batch[2]
        pair_indices == x_batch[3]
        num_atoms == row_lengths(atom_features)
        num_bonds == row_lengths(bond_features)
        atom_partition_indices == batch_partition(num_atoms)
        increment == batch_increment(num_atoms, num_bonds)
    IN  [atom_features |-> to_tensor(Flatten(atom_features)),
         bond_features |-> to_tensor(Flatten(bond_features)),
         pair_indices |-> add_increment(to_tensor(Flatten(pair_indices)), increment),
         atom_partition_indices |-> atom_partition_indices,
         y_batch |-> y_batch]

-----------------------------------------------------------------------------
(* The data set: rows of BBBP.csv (df.smiles, df.p_np) and what rdkit      *)
(* parses each SMILES to.                                                  *)

Atom(sym, val, hs, hyb) ==
    [GetSymbol |-> sym, GetTotalValence |-> val, GetTotalNumHs |-> hs,
     GetHybridization |-> hyb]

Bond(b, e, type, conj) ==
    [begin |-> b, end |-> e, GetBondType |-> type, GetIsConjugated |-> conj]

df ==
    << [smiles |-> "C", p_np |-> 1],
       [smiles |-> "CC", p_np |-> 1],
       [smiles |-> "CCO", p_np |-> 1],
       [smiles |-> "C=O", p_np |-> 0],
       [smiles |-> "C#N", p_np |-> 0],
       [smiles |-> "[Na+].[Cl-]", p_np |-> 0],
       [smiles |-> "C1CC1", p_np |-> 1] >>

\* Chem.MolFromSmiles on the SMILES of df
Chem_MolFromSmiles ==
    ("C" :> [atoms |-> <<Atom("C", 4, 4, "SP3")>>, bonds |-> <<>>]) @@
    ("CC" :> [atoms |-> <<Atom("C", 4, 3, "SP3"), Atom("C", 4, 3, "SP3")>>,
              bonds |-> <<Bond(0, 1, "SINGLE", FALSE)>>]) @@
    ("CCO" :> [atoms |-> <<Atom("C", 4, 3, "SP3"), Atom("C", 4, 2, "SP3"),
                           Atom("O", 2, 1, "SP3")>>,
               bonds |-> <<Bond(0, 1, "SINGLE", FALSE),
                           Bond(1, 2, "SINGLE", FALSE)>>]) @@
    ("C=O" :> [atoms |-> <<Atom("C", 4, 2, "SP2"), Atom("O", 2, 0, "SP2")>>,
               bonds |-> <<Bond(0, 1, "DOUBLE", FALSE)>>]) @@
    ("C#N" :> [atoms |-> <<Atom("C", 4, 1, "SP"), Atom("N", 3, 0, "SP")>>,
               bonds |-> <<Bond(0, 1, "TRIPLE", FALSE)>>]) @@
    ("[Na+].[Cl-]" :> [atoms |-> <<Atom("Na", 0, 0, "S"),
                                   Atom("Cl", 0, 0, "SP3")>>,
                       bonds |-> <<>>]) @@
    ("C1CC1" :> [atoms |-> <<Atom("C", 4, 2, "SP3"), Atom("C", 4, 2, "SP3"),
                             Atom("C", 4, 2, "SP3")>>,
                 bonds |-> <<Bond(0, 1, "SINGLE", FALSE),
                             Bond(1, 2, "SINGLE", FALSE),
                             Bond(2, 0, "SINGLE", FALSE)>>])

\* molecule_from_smiles(smiles) for the SMILES of df, on all of which the
\* first sanitization pass reports no failure: the sanitized molecule
molecule_from_smiles(smiles) == Chem_MolFromSmiles[smiles]

-----------------------------------------------------------------------------
(* Bounds                                                                  *)

MaxMols == 3       \* rows of the data set handed to graphs_from_smiles
MaxBatch == 3      \* largest batch_size tried
MaxAtoms == 4      \* atoms of a molecule handed to graph_from_molecule alone
MaxValence == 7    \* largest GetTotalValence() of an encoded atom
MaxHs == 5         \* largest GetTotalNumHs() of an encoded atom
MaxColumns == 2    \* columns of a node state handed to PartitionPadding alone
                   \* that vary; the other columns are 0.0

\* the entries tried in those columns: the whole values in [-1.0, 1.0], the
\* range of the output of the cell
StateEntries == {-1, 0, 1}

-----------------------------------------------------------------------------
(* The script: graphs_from_smiles, then MPNNDataset batches.               *)

\* no MessagePassing layer has been called
MPIdle ==
    /\ mp_weights = None
    /\ mp_inputs = None
    /\ mp_i = 0
    /\ atom_features_updated = None
    /\ atom_features_aggregated = None

\* no PartitionPadding layer has been called
ReadoutIdle ==
    /\ pp_inputs = None
    /\ atom_features_padded = None
    /\ x_partitioned = None

\* Chem.SanitizeMol has not been called
SanitizeIdle ==
    /\ flag = None
    /\ sanitize_calls = <<>>

\* permuted_indices[: k]: k distinct rows of df in some order
TrainIndices ==
    {idx \in UNION {[1..n -> 1..Len(df)] : n \in 1..MaxMols} :
        \A i, j \in DOMAIN idx : i # j => idx[i] # idx[j]}

Init ==
    /\ pc = "graphs"
    /\ \E idx \in TrainIndices :
          /\ smiles_list = [i \in DOMAIN idx |-> df[idx[i]].smiles]
          /\ y = [i \in DOMAIN idx |-> df[idx[i]].p_np]
    /\ atom_features_list = <<>>
    /\ bond_features_list = <<>>
    /\ pair_indices_list = <<>>
    /\ batch_size \in 1..MaxBatch
    /\ batch_no = 0
    /\ batch = None
    /\ molecule = None
    /\ graph = None
    /\ enc_in = None
    /\ enc_out = None
    /\ MPIdle
    /\ ReadoutIdle
    /\ SanitizeIdle

\* one iteration of "for smiles in smiles_list" in graphs_from_smiles
GraphsFromSmilesStep ==
    /\ pc = "graphs"
    /\ LET k == Len(atom_features_list) + 1
           mol == molecule_from_smiles(smiles_list[k])
           g == graph_from_molecule(mol)
       IN  /\ molecule' = mol
           /\ graph' = g
           /\ atom_features_list' = Append(atom_features_list, g.atom_features)
           /\ bond_features_list' = Append(bond_features_list, g.bond_features)
           /\ pair_indices_list' = Append(pair_indices_list, g.pair_indices)
           /\ pc' = IF k = Len(smiles_list) THEN "dataset" ELSE "graphs"
    /\ UNCHANGED <<smiles_list, y, batch_size, batch_no, batch, enc_in, enc_out,
                   mp_weights, mp_inputs, mp_i, atom_features_updated, atom_features_aggregated,
                   atom_features_padded, pp_inputs,
                   x_partitioned, flag, sanitize_calls>>

\* first and last row (1-based) of batch number b of dataset.batch(batch_size)
BatchLo(b) == (b - 1) * batch_size + 1
BatchHi(b) ==
    IF b * batch_size <= Len(smiles_list) THEN b * batch_size
    ELSE Len(smiles_list)

\* element b of dataset.batch(batch_size): the ragged x_batch and y_batch
XBatch(b) ==
    << SubSeq(atom_features_list, BatchLo(b), BatchHi(b)),
       SubSeq(bond_features_list, BatchLo(b), BatchHi(b)),
       SubSeq(pair_indices_list, BatchLo(b), BatchHi(b)) >>
YBatch(b) == SubSeq(y, BatchLo(b), BatchHi(b))

\* MPNNDataset: the next element of dataset.batch(batch_size).map(prepare_batch)
PrepareBatch ==
    /\ pc = "dataset"
    /\ BatchLo(batch_no + 1) <= Len(smiles_list)
    /\ batch' = prepare_batch(XBatch(batch_no + 1), YBatch(batch_no + 1))
    /\ batch_no' = batch_no + 1
    /\ UNCHANGED <<pc, smiles_list, atom_features_list, bond_features_list,
                   pair_indices_list, y, batch_size, molecule, graph,
                   enc_in, enc_out, mp_weights, mp_inputs, mp_i,
                   atom_features_updated, atom_features_aggregated,
                   atom_features_padded, pp_inputs,
                   x_partitioned, flag, sanitize_calls>>

Next == GraphsFromSmilesStep \/ PrepareBatch

Spec == Init /\ [][Next]_vars

-----------------------------------------------------------------------------
(* graph_from_molecule on its own, over every small carbon skeleton.       *)

\* the unordered atom pairs {a, b}, a < b, of a molecule with n atoms
Pairs(n) == {p \in (0..(n - 1)) \X (0..(n - 1)) : p[1] < p[2]}

RECURSIVE SortPairs(_)
SortPairs(E) ==
    IF E = {} THEN <<>>
    ELSE LET m == CHOOSE p \in E : \A q \in E \ {p} : LexLess(p, q)
         IN  <<m>> \o SortPairs(E \ {m})

Reverse(s) == [i \in 1..Len(s) |-> s[Len(s) + 1 - i]]

\* the bond lists over n atoms: any set of pairs, stored in either order
BondSeqs(n) ==
    UNION {{SortPairs(E), Reverse(SortPairs(E))} : E \in SUBSET Pairs(n)}

Degree(bs, idx) == Cardinality({k \in 1..Len(bs) : idx \in {bs[k][1], bs[k][2]}})

\* the saturated hydrocarbon with n carbons joined by the single bonds bs
CarbonSkeleton(n, bs) ==
    [atoms |-> [i \in 1..n |-> Atom("C", 4, 4 - Degree(bs, i - 1), "SP3")],
     bonds |-> [k \in 1..Len(bs) |-> Bond(bs[k][1], bs[k][2], "SINGLE", FALSE)]]

\* the molecules handed to graph_from_molecule: those of df and every carbon
\* skeleton of up to MaxAtoms atoms
Molecules ==
    {molecule_from_smiles(df[i].smiles) : i \in 1..Len(df)}
      \cup UNION {{CarbonSkeleton(n, bs) : bs \in BondSeqs(n)} :
                    n \in 1..MaxAtoms}

InitGraph ==
    /\ pc = "molecule"
    /\ molecule \in Molecules
    /\ graph = None
    /\ smiles_list = <<>>
    /\ y = <<>>
    /\ atom_features_list = <<>>
    /\ bond_features_list = <<>>
    /\ pair_indices_list = <<>>
    /\ batch_size = 1
    /\ batch_no = 0
    /\ batch = None
    /\ enc_in = None
    /\ enc_out = None
    /\ MPIdle
    /\ ReadoutIdle
    /\ SanitizeIdle

\* graph = graph_from_molecule(molecule)
GraphFromMolecule ==
    /\ pc = "molecule"
    /\ graph' = graph_from_molecule(molecule)
    /\ pc' = "graph"
    /\ UNCHANGED <<smiles_list, atom_features_list, bond_features_list,
                   pair_indices_list, y, batch_size, batch_no, batch, molecule,
                   enc_in, enc_out, mp_weights, mp_inputs, mp_i,
                   atom_features_updated, atom_features_aggregated,
                   atom_features_padded, pp_inputs,
                   x_partitioned, flag, sanitize_calls>>

NextGraph == GraphFromMolecule

SpecGraph == InitGraph /\ [][NextGraph]_vars

-----------------------------------------------------------------------------
(* Featurizer.encode on its own, over in- and out-of-vocabulary atoms.     *)

EncodeSymbols ==
    {"B", "Br", "C", "Ca", "Cl", "F", "H", "I", "N", "Na", "O", "P", "S",
     "Si", "Se"}

EncodeHybridizations == {"S", "SP", "SP2", "SP3", "SP3D"}

EncodeInputs ==
    {Atom(sym, val, hs, hyb) :
        sym \in EncodeSymbols, val \in 0..MaxValence, hs \in 0..MaxHs,
        hyb \in EncodeHybridizations}

EncodeBondTypes == {"SINGLE", "DOUBLE", "TRIPLE", "AROMATIC", "DATIVE", "ZERO"}

\* the bonds handed to bond_featurizer.encode: None for a self-loop, or a bond
EncodeBondInputs ==
    {None} \cup {Bond(0, 1, type, conj) :
                    type \in EncodeBondTypes, conj \in BOOLEAN}

InitEncode ==
    /\ \/ pc = "encode" /\ enc_in \in EncodeInputs
       \/ pc = "encode_bond" /\ enc_in \in EncodeBondInputs
    /\ enc_out = None
    /\ molecule = None
    /\ graph = None
    /\ smiles_list = <<>>
    /\ y = <<>>
    /\ atom_features_list = <<>>
    /\ bond_features_list = <<>>
    /\ pair_indices_list = <<>>
    /\ batch_size = 1
    /\ batch_no = 0
    /\ batch = None
    /\ MPIdle
    /\ ReadoutIdle
    /\ SanitizeIdle

\* enc_out = atom_featurizer.encode(enc_in)
Encode ==
    /\ pc = "encode"
    /\ enc_out' = Featurizer_encode(atom_featurizer, enc_in)
    /\ pc' = "encoded"
    /\ UNCHANGED <<smiles_list, atom_features_list, bond_features_list,
                   pair_indices_list, y, batch_size, batch_no, batch, molecule,
                   graph, enc_in, mp_weights, mp_inputs, mp_i,
                   atom_features_updated, atom_features_aggregated,
                   atom_features_padded, pp_inputs,
                   x_partitioned, flag, sanitize_calls>>

\* enc_out = bond_featurizer.encode(enc_in)
EncodeBond ==
    /\ pc = "encode_bond"
    /\ enc_out' = BondFeaturizer_encode(bond_featurizer, enc_in)
    /\ pc' = "encoded_bond"
    /\ UNCHANGED <<smiles_list, atom_features_list, bond_features_list,
                   pair_indices_list, y, batch_size, batch_no, batch, molecule,
                   graph, enc_in, mp_weights, mp_inputs, mp_i,
                   atom_features_updated, atom_features_aggregated,
                   atom_features_padded, pp_inputs,
                   x_partitioned, flag, sanitize_calls>>

NextEncode == Encode \/ EncodeBond

SpecEncode == InitEncode /\ [][NextEncode]_vars

-----------------------------------------------------------------------------
(* EdgeNetwork and MessagePassing.  The weights of the two layers are      *)
(* float32 tensors that build draws at random and fit trains; a node state *)
(* is a function of them that no finite table holds.  A state is therefore *)
(* kept as the expression the code evaluates, not as its value: the        *)
(* product of an edge's matrix with a neighbor state is the record of its   *)
(* two operands, a segment sum is the record of its summands in the order   *)
(* they are added, and the output of the cell is the record of its input    *)
(* and its state.  Two equal expressions have equal values whatever the     *)
(* weights are.  The padded node features, the operands at the leaves, are  *)
(* the rows the code holds.                                                 *)

steps == 4         \* MessagePassing(units, steps=4)
units == 64        \* MPNNModel(message_units=64): the width of a node state

IsSorted(ids) == \A k \in 1..(Len(ids) - 1) : ids[k] <= ids[k + 1]

\* the rows of data at the positions whose id lies in lo..hi, in order
RowsWhere(data, segment_ids, lo, hi) ==
    LET ks == SelectSeq([k \in 1..Len(data) |-> k],
                        LAMBDA k : lo <= segment_ids[k] /\ segment_ids[k] <= hi)
    IN  [j \in 1..Len(ks) |-> data[ks[j]]]

\* slip: the accumulator is not reset between segments
segment_sum_no_reset(data, segment_ids) ==
    IF data = <<>> THEN <<>>
    ELSE [v \in 1..(segment_ids[Len(segment_ids)] + 1) |->
             [summands |-> RowsWhere(data, segment_ids, 0, v - 1)]]

\* tf.math.segment_sum raises InvalidArgumentError on ids that are not sorted
segment_sum_raises(segment_ids) == ~IsSorted(segment_ids)

\* tf.math.segment_sum(data, segment_ids) for sorted ids: row v is the sum of
\* the rows with id v, in their order in data, for v up to the last id
segment_sum(data, segment_ids) ==
    IF data = <<>> THEN <<>>
    ELSE [v \in 1..(segment_ids[Len(segment_ids)] + 1) |->
             [summands |-> RowsWhere(data, segment_ids, v - 1, v - 1)]]

\* for one edge: tf.matmul(bond_features, self.kernel) + self.bias, reshaped
\* to (atom_dim, atom_dim), times the neighbor's state; the matrix depends
\* on the edge through its bond features only
edge_transform(bond_row, neighbor) ==
    [bond_features |-> bond_row, atom_features_neighbors |-> neighbor]

\* slip: the states are gathered by the first column of pair_indices
EdgeNetwork_call_gather_src(atom_features, bond_features, pair_indices) ==
    LET transformed_features ==
            [k \in 1..Len(pair_indices) |->
                edge_transform(bond_features[k],
                               atom_features[pair_indices[k][1] + 1])]
    IN  segment_sum(transformed_features,
                    [k \in 1..Len(pair_indices) |-> pair_indices[k][1]])

\* EdgeNetwork.call([atom_features, bond_features, pair_indices])
EdgeNetwork_call(atom_features, bond_features, pair_indices) ==
    LET transformed_features ==
            [k \in 1..Len(pair_indices) |->
                edge_transform(bond_features[k],
                               atom_features[pair_indices[k][2] + 1])]
    IN  segment_sum(transformed_features,
                    [k \in 1..Len(pair_indices) |-> pair_indices[k][1]])

\* layers.GRUCell applied to one row: input x, previous state h
GRUCell_row(x, h) == [inputs |-> x, states |-> h]

\* the products of the inputs and of the states are combined element-wise
\* with broadcasting: the cell raises when the two differ in their number of
\* rows and neither has one row
GRUCell_raises(inputs, states) ==
    /\ Len(inputs) # Len(states)
    /\ Len(inputs) # 1
    /\ Len(states) # 1

\* the number of rows two tensors of a and b rows broadcast to
BroadcastRows(a, b) == IF a = 1 THEN b ELSE a

\* row v of a tensor broadcast to more rows
BroadcastRow(t, v) == IF Len(t) = 1 THEN t[1] ELSE t[v]

\* slip: the aggregate is passed as the state and the state as the input
GRUCell_call_swapped(inputs, states) ==
    [v \in 1..BroadcastRows(Len(inputs), Len(states)) |->
        GRUCell_row(BroadcastRow(states, v), BroadcastRow(inputs, v))]

\* self.update_step(atom_features_aggregated, atom_features_updated)
GRUCell_call(inputs, states) ==
    [v \in 1..BroadcastRows(Len(inputs), Len(states)) |->
        GRUCell_row(BroadcastRow(inputs, v), BroadcastRow(states, v))]

\* tf.pad(atom_features, [(0, 0), (0, self.pad_length)])
pad_features(atom_features, pad_length) ==
    [v \in 1..Len(atom_features) |->
        [c \in 1..(Len(atom_features[v]) + pad_length) |->
            IF c <= Len(atom_features[v]) THEN atom_features[v][c] ELSE 0]]

\* MessagePassing.build and, at the first call, EdgeNetwork.build: the
\* attributes set and the shapes of the weights created for node features of
\* width atom_dim and bond features of width bond_dim
MessagePassing_build(atom_dim, bond_dim) ==
    LET pad_length == IF units - atom_dim > 0 THEN units - atom_dim ELSE 0
    IN  [atom_dim |-> atom_dim,
         pad_length |-> pad_length,
         cell_units |-> atom_dim + pad_length,
         kernel_shape |->
             <<bond_dim, (atom_dim + pad_length) * (atom_dim + pad_length)>>,
         bias_shape |-> <<(atom_dim + pad_length) * (atom_dim + pad_length)>>]

\* an iteration of the loop of MessagePassing.call raises
MessagePassing_step_raises(updated, bond_features, pair_indices) ==
    \/ segment_sum_raises([k \in 1..Len(pair_indices) |-> pair_indices[k][1]])
    \/ GRUCell_raises(
           EdgeNetwork_call(updated, bond_features, pair_indices), updated)

\* one iteration of the loop of MessagePassing.call: the aggregate is
\* computed, then handed to the cell with the states it was computed from
MessagePassing_step(updated, bond_features, pair_indices) ==
    CHOOSE new_states \in
        {GRUCell_call(aggregated, updated) :
            aggregated \in
                {EdgeNetwork_call(updated, bond_features, pair_indices)}} :
        TRUE

RECURSIVE MessagePassing_loop(_, _, _, _)
MessagePassing_loop(updated, bond_features, pair_indices, i) ==
    IF i = steps THEN updated
    ELSE CHOOSE final \in
             {MessagePassing_loop(next, bond_features, pair_indices, i + 1) :
                 next \in {MessagePassing_step(updated, bond_features,
                                               pair_indices)}} : TRUE

\* MessagePassing.call([atom_features, bond_features, pair_indices])
MessagePassing_call(w, inputs) ==
    MessagePassing_loop(pad_features(inputs.atom_features, w.pad_length),
                        inputs.bond_features, inputs.pair_indices, 0)

\* the rows of df whose graphs make up a batch: one row or two
MPRows ==
    {<<i>> : i \in 1..Len(df)}
        \cup {<<i, j>> : i \in 1..Len(df), j \in 1..Len(df)}

\* the ragged x_batch of the graphs of the rows idx of df
GraphsOf(idx) ==
    << [position \in DOMAIN idx |->
           graph_from_molecule(molecule_from_smiles(df[idx[position]].smiles))
               .atom_features],
       [position \in DOMAIN idx |->
           graph_from_molecule(molecule_from_smiles(df[idx[position]].smiles))
               .bond_features],
       [position \in DOMAIN idx |->
           graph_from_molecule(molecule_from_smiles(df[idx[position]].smiles))
               .pair_indices] >>

\* the inputs of the layer: the global graphs prepare_batch merges from the
\* graphs of one or two rows of df, of at most MaxAtoms nodes
MPInputs ==
    {merged \in {[atom_features |-> b.atom_features,
                  bond_features |-> b.bond_features,
                  pair_indices |-> b.pair_indices] :
                    b \in {prepare_batch(GraphsOf(idx),
                                         [position \in DOMAIN idx |->
                                             df[idx[position]].p_np]) :
                              idx \in MPRows}} :
        Len(merged.atom_features) <= MaxAtoms}

InitMP ==
    /\ pc = "mp_call"
    /\ mp_inputs \in MPInputs
    /\ mp_weights = MessagePassing_build(Len(mp_inputs.atom_features[1]),
                                         Len(mp_inputs.bond_features[1]))
    /\ mp_i = 0
    /\ atom_features_updated = None
    /\ atom_features_aggregated = None
    /\ ReadoutIdle
    /\ SanitizeIdle
    /\ molecule = None
    /\ graph = None
    /\ smiles_list = <<>>
    /\ y = <<>>
    /\ atom_features_list = <<>>
    /\ bond_features_list = <<>>
    /\ pair_indices_list = <<>>
    /\ batch_size = 1
    /\ batch_no = 0
    /\ batch = None
    /\ enc_in = None
    /\ enc_out = None

\* MessagePassing.call up to the loop: the node features are padded
MPCall ==
    /\ pc = "mp_call"
    /\ atom_features_updated' =
           pad_features(mp_inputs.atom_features, mp_weights.pad_length)
    /\ mp_i' = 0
    /\ pc' = "mp_loop"
    /\ UNCHANGED atom_features_aggregated
    /\ UNCHANGED <<smiles_list, atom_features_list, bond_features_list,
                   pair_indices_list, y, batch_size, batch_no, batch, molecule,
                   graph, enc_in, enc_out, mp_weights, mp_inputs,
                   atom_features_padded, pp_inputs,
                   x_partitioned, flag, sanitize_calls>>

\* one iteration of "for i in range(self.steps)"
MPStep ==
    /\ pc = "mp_loop"
    /\ IF MessagePassing_step_raises(atom_features_updated,
                                     mp_inputs.bond_features,
                                     mp_inputs.pair_indices)
       THEN /\ pc' = "mp_error"
            /\ UNCHANGED <<mp_i, atom_features_updated,
                           atom_features_aggregated>>
       ELSE /\ atom_features_aggregated' =
                   EdgeNetwork_call(atom_features_updated,
                                    mp_inputs.bond_features,
                                    mp_inputs.pair_indices)
            /\ atom_features_updated' =
                   GRUCell_call(atom_features_aggregated',
                                atom_features_updated)
            /\ mp_i' = mp_i + 1
            /\ pc' = IF mp_i + 1 = steps THEN "mp_done" ELSE "mp_loop"
    /\ UNCHANGED <<smiles_list, atom_features_list, bond_features_list,
                   pair_indices_list, y, batch_size, batch_no, batch, molecule,
                   graph, enc_in, enc_out, mp_weights, mp_inputs,
                   atom_features_padded, pp_inputs,
                   x_partitioned, flag, sanitize_calls>>

NextMP == MPCall \/ MPStep

SpecMP == InitMP /\ [][NextMP]_vars

-----------------------------------------------------------------------------
(* molecule_from_smiles, call by call.  An rdkit Mol is given here by what  *)
(* sanitization does to it: the operations that fail on it, the operations  *)
(* applied to it so far, and whether its stereochemistry was assigned.      *)

\* Chem.SanitizeFlags
SANITIZE_NONE == 0
SANITIZE_PROPERTIES == 2
SANITIZE_KEKULIZE == 8
SANITIZE_ALL == 268435455

\* the operations of Chem.SanitizeMol, by flag, in the order it applies them
SanitizeOrder == <<1, 2, 4, 8, 16, 32, 64, 128, 256, 512>>

MaxFailing == 2    \* most operations that fail on one molecule

RECURSIVE BitXor(_, _)
\* a ^ b on non-negative ints
BitXor(a, b) ==
    IF a = 0 /\ b = 0 THEN 0
    ELSE (((a % 2) + (b % 2)) % 2) + 2 * BitXor(a \div 2, b \div 2)

RECURSIVE BitAnd(_, _)
\* a & b on non-negative ints
BitAnd(a, b) ==
    IF a = 0 \/ b = 0 THEN 0
    ELSE ((a % 2) * (b % 2)) + 2 * BitAnd(a \div 2, b \div 2)

\* Chem.MolFromSmiles(smiles, sanitize=False): the molecules it can return
UnsanitizedMolecules ==
    {[fails |-> F, sanitized |-> {}, stereo |-> FALSE] :
        F \in {G \in SUBSET {SanitizeOrder[i] : i \in 1..Len(SanitizeOrder)} :
                  Cardinality(G) <= MaxFailing}}

\* the operations (positions in SanitizeOrder) that sanitizeOps selects
SelectedOps(sanitizeOps) ==
    SelectSeq(SanitizeOrder, LAMBDA op : BitAnd(sanitizeOps, op) # 0)

\* Chem.SanitizeMol(mol, sanitizeOps): the selected operations are applied in
\* order up to the first that fails; operationThatFailed is its flag, or
\* SANITIZE_NONE.  With catchErrors=True the flag is returned, otherwise a
\* failure raises.
Chem_SanitizeMol(mol, sanitizeOps) ==
    LET ops == SelectedOps(sanitizeOps)
        bad == {i \in 1..Len(ops) : ops[i] \in mol.fails}
        first == IF bad = {} THEN Len(ops) + 1
                 ELSE CHOOSE i \in bad : \A j \in bad : i <= j
    IN  [operationThatFailed |->
             IF bad = {} THEN SANITIZE_NONE ELSE ops[first],
         molecule |->
             [mol EXCEPT !.sanitized =
                             @ \cup {ops[i] : i \in 1..(first - 1)}]]

\* slip: the retry runs every operation again
retry_sanitizeOps_all(first_flag) == SANITIZE_ALL

\* Chem.SanitizeFlags.SANITIZE_ALL ^ flag
retry_sanitizeOps(first_flag) == BitXor(SANITIZE_ALL, first_flag)

InitSanitize ==
    /\ pc = "sanitize"
    /\ molecule \in UnsanitizedMolecules
    /\ flag = None
    /\ sanitize_calls = <<>>
    /\ graph = None
    /\ smiles_list = <<>>
    /\ y = <<>>
    /\ atom_features_list = <<>>
    /\ bond_features_list = <<>>
    /\ pair_indices_list = <<>>
    /\ batch_size = 1
    /\ batch_no = 0
    /\ batch = None
    /\ enc_in = None
    /\ enc_out = None
    /\ MPIdle
    /\ ReadoutIdle

\* flag = Chem.SanitizeMol(molecule, catchErrors=True)
SanitizeFirst ==
    /\ pc = "sanitize"
    /\ LET r == Chem_SanitizeMol(molecule, SANITIZE_ALL)
       IN  /\ flag' = r.operationThatFailed
           /\ molecule' = r.molecule
    /\ sanitize_calls' =
           Append(sanitize_calls,
                  [sanitizeOps |-> SANITIZE_ALL, catchErrors |-> TRUE])
    /\ pc' = "flag"
    /\ UNCHANGED <<smiles_list, atom_features_list, bond_features_list,
                   pair_indices_list, y, batch_size, batch_no, batch, graph,
                   enc_in, enc_out, mp_weights, mp_inputs, mp_i,
                   atom_features_updated, atom_features_aggregated,
                   atom_features_padded, pp_inputs,
                   x_partitioned>>

\* if flag != SANITIZE_NONE: Chem.SanitizeMol(molecule, sanitizeOps=ALL ^ flag)
SanitizeRetry ==
    /\ pc = "flag"
    /\ flag # SANITIZE_NONE
    /\ LET r == Chem_SanitizeMol(molecule, retry_sanitizeOps(flag))
       IN  /\ molecule' = r.molecule
           /\ pc' = IF r.operationThatFailed # SANITIZE_NONE THEN "raised"
                    ELSE "stereo"
    /\ sanitize_calls' =
           Append(sanitize_calls,
                  [sanitizeOps |-> retry_sanitizeOps(flag),
                   catchErrors |-> FALSE])
    /\ UNCHANGED <<smiles_list, atom_features_list, bond_features_list,
                   pair_indices_list, y, batch_size, batch_no, batch, graph,
                   enc_in, enc_out, mp_weights, mp_inputs, mp_i,
                   atom_features_updated, atom_features_aggregated,
                   atom_features_padded, pp_inputs,
                   x_partitioned, flag>>

\* Chem.AssignStereochemistry(molecule, cleanIt=True, force=True); return
AssignStereochemistry ==
    /\ \/ pc = "flag" /\ flag = SANITIZE_NONE
       \/ pc = "stereo"
    /\ molecule' = [molecule EXCEPT !.stereo = TRUE]
    /\ pc' = "returned"
    /\ UNCHANGED <<smiles_list, atom_features_list, bond_features_list,
                   pair_indices_list, y, batch_size, batch_no, batch, graph,
                   enc_in, enc_out, mp_weights, mp_inputs, mp_i,
                   atom_features_updated, atom_features_aggregated,
                   atom_features_padded, pp_inputs,
                   x_partitioned, flag, sanitize_calls>>

NextSanitize == SanitizeFirst \/ SanitizeRetry \/ AssignStereochemistry

SpecSanitize == InitSanitize /\ [][NextSanitize]_vars

-----------------------------------------------------------------------------
(* PartitionPadding                                                        *)

\* tf.dynamic_partition raises on a partition index outside 0..num_partitions-1
tf_dynamic_partition_raises(partitions, num_partitions) ==
    \E k \in 1..Len(partitions) :
        partitions[k] < 0 \/ partitions[k] >= num_partitions

\* slip: the rows are dealt out in equal consecutive runs, ignoring partitions
tf_dynamic_partition_even(data, partitions, num_partitions) ==
    [i \in 1..num_partitions |->
        SubSeq(data, (i - 1) * (Len(data) \div num_partitions) + 1,
               IF i = num_partitions THEN Len(data)
               ELSE i * (Len(data) \div num_partitions))]

\* tf.dynamic_partition(data, partitions, num_partitions): a list of
\* num_partitions tensors, the i-th holding the rows of data whose partition
\* index is i, in their order in data
tf_dynamic_partition(data, partitions, num_partitions) ==
    [i \in 1..num_partitions |-> RowsWhere(data, partitions, i - 1, i - 1)]

\* tf.reduce_max(num_atoms)
tf_reduce_max(num_atoms) ==
    CHOOSE m \in {num_atoms[i] : i \in 1..Len(num_atoms)} :
        \A i \in 1..Len(num_atoms) : num_atoms[i] <= m

\* tf.pad(f, [(0, after), (0, 0)]) for a matrix f with width columns
tf_pad_rows(f, after, width) == f \o [j \in 1..after |-> np_zeros(width)]

\* tf.reduce_sum(t, (1, 2)): per segment, the sum of all its entries
tf_reduce_sum_12(t) ==
    [i \in 1..Len(t) |-> SumSeq([r \in 1..Len(t[i]) |-> SumSeq(t[i][r])])]

\* slip: every segment is kept
tf_where_nonzero_all(sums) == [i \in 1..Len(sums) |-> i - 1]

\* tf.squeeze(tf.where(sums != 0), axis=-1): the indices (0-based) of the
\* non-zero entries of sums, ascending
tf_where_nonzero(sums) ==
    LET ks == SelectSeq([i \in 1..Len(sums) |-> i], LAMBDA i : sums[i] # 0)
    IN  [j \in 1..Len(ks) |-> ks[j] - 1]

\* PartitionPadding.call([atom_features, atom_partition_indices]) of a layer
\* built with batch_size: the stacked tensor before the filter, the indices
\* kept by the filter, and the returned tensor
PartitionPadding_call(layer_batch_size, atom_features, atom_partition_indices) ==
    LET partitioned == tf_dynamic_partition(atom_features,
                                            atom_partition_indices,
                                            layer_batch_size)
        num_atoms == [i \in 1..Len(partitioned) |-> Len(partitioned[i])]
        max_num_atoms == tf_reduce_max(num_atoms)
        padded == [i \in 1..Len(partitioned) |->
                      tf_pad_rows(partitioned[i], max_num_atoms - num_atoms[i],
                                  Len(atom_features[1]))]
        nonempty_examples == tf_where_nonzero(tf_reduce_sum_12(padded))
    IN  [atom_features_padded |-> padded,
         nonempty_examples |-> nonempty_examples,
         output |-> tf_gather(padded, nonempty_examples)]

-----------------------------------------------------------------------------
(* MPNNModel on one batch of MPNNDataset: MessagePassing.                  *)

\* the rows of df that make up the batch: one or two of "C", "CC", "CCO"
ModelRows ==
    {<<i>> : i \in 1..3} \cup {<<i, j>> : i \in 1..3, j \in 1..3}

InitModel ==
    /\ pc = "mp_call"
    /\ \E idx \in ModelRows :
          /\ smiles_list = [i \in DOMAIN idx |-> df[idx[i]].smiles]
          /\ y = [i \in DOMAIN idx |-> df[idx[i]].p_np]
    /\ atom_features_list =
           [i \in DOMAIN smiles_list |->
               graph_from_molecule(molecule_from_smiles(smiles_list[i]))
                   .atom_features]
    /\ bond_features_list =
           [i \in DOMAIN smiles_list |->
               graph_from_molecule(molecule_from_smiles(smiles_list[i]))
                   .bond_features]
    /\ pair_indices_list =
           [i \in DOMAIN smiles_list |->
               graph_from_molecule(molecule_from_smiles(smiles_list[i]))
                   .pair_indices]
    /\ batch_size \in {Len(smiles_list), MaxBatch}
    /\ batch_no = 1
    /\ batch = prepare_batch(XBatch(1), YBatch(1))
    /\ mp_inputs = [atom_features |-> batch.atom_features,
                    bond_features |-> batch.bond_features,
                    pair_indices |-> batch.pair_indices]
    /\ mp_weights = MessagePassing_build(Len(mp_inputs.atom_features[1]),
                                         Len(mp_inputs.bond_features[1]))
    /\ mp_i = 0
    /\ atom_features_updated = None
    /\ atom_features_aggregated = None
    /\ ReadoutIdle
    /\ SanitizeIdle
    /\ molecule = None
    /\ graph = None
    /\ enc_in = None
    /\ enc_out = None

NextModel == MPCall \/ MPStep

SpecModel == InitModel /\ [][NextModel]_vars

-----------------------------------------------------------------------------
(* PartitionPadding.call as a function of its inputs.  The membership      *)
(* array is that of a batch of MPNNDataset.  The node-state tensor is not   *)
(* computed from weights: it ranges over the tensors of the batch's shape   *)
(* whose rows are in FeatureRows (see MaxColumns, StateEntries).            *)

\* the rows of df that make up the batch: "C", "CC" or both, in either order
PartitionRows == {<<1>>, <<2>>, <<1, 2>>, <<2, 1>>}

\* the rows of width `units` tried as node states: entries from StateEntries
\* in the first MaxColumns columns, 0.0 in the others
FeatureRows ==
    {[c \in 1..units |-> IF c <= MaxColumns THEN e[c] ELSE 0] :
        e \in [1..MaxColumns -> StateEntries]}

\* the inputs [atom_features, atom_partition_indices] tried for a membership
\* array: every tensor with one row of FeatureRows per node
PartitionInputs(atom_partition_indices) ==
    {[atom_features |-> t, atom_partition_indices |-> atom_partition_indices] :
        t \in [1..Len(atom_partition_indices) -> FeatureRows]}

InitPartition ==
    /\ pc = "pp_call"
    /\ \E idx \in PartitionRows :
          /\ smiles_list = [i \in DOMAIN idx |-> df[idx[i]].smiles]
          /\ y = [i \in DOMAIN idx |-> df[idx[i]].p_np]
    /\ atom_features_list =
           [i \in DOMAIN smiles_list |->
               graph_from_molecule(molecule_from_smiles(smiles_list[i]))
                   .atom_features]
    /\ bond_features_list =
           [i \in DOMAIN smiles_list |->
               graph_from_molecule(molecule_from_smiles(smiles_list[i]))
                   .bond_features]
    /\ pair_indices_list =
           [i \in DOMAIN smiles_list |->
               graph_from_molecule(molecule_from_smiles(smiles_list[i]))
                   .pair_indices]
    /\ batch_size \in {Len(smiles_list), MaxBatch}
    /\ batch_no = 1
    /\ batch = prepare_batch(XBatch(1), YBatch(1))
    /\ pp_inputs \in PartitionInputs(batch.atom_partition_indices)
    /\ atom_features_padded = None
    /\ x_partitioned = None
    /\ MPIdle
    /\ SanitizeIdle
    /\ molecule = None
    /\ graph = None
    /\ enc_in = None
    /\ enc_out = None

\* PartitionPadding(batch_size)([atom_features, atom_partition_indices])
PartitionPaddingCall ==
    /\ pc = "pp_call"
    /\ IF tf_dynamic_partition_raises(pp_inputs.atom_partition_indices,
                                      batch_size)
       THEN /\ pc' = "pp_error"
            /\ UNCHANGED <<atom_features_padded, x_partitioned>>
       ELSE LET r == PartitionPadding_call(batch_size, pp_inputs.atom_features,
                                           pp_inputs.atom_partition_indices)
            IN  /\ atom_features_padded' = r.atom_features_padded
                /\ x_partitioned' = r.output
                /\ pc' = "readout"
    /\ UNCHANGED <<smiles_list, atom_features_list, bond_features_list,
                   pair_indices_list, y, batch_size, batch_no, batch, molecule,
                   graph, enc_in, enc_out, mp_weights, mp_inputs, mp_i,
                   atom_features_updated, atom_features_aggregated, pp_inputs,
                   flag, sanitize_calls>>

NextPartition == PartitionPaddingCall

SpecPartition == InitPartition /\ [][NextPartition]_vars

-----------------------------------------------------------------------------
(* Properties of graph_from_molecule.                                      *)

\* the set of rows of an index list
RowSet(rows) == {rows[k] : k \in 1..Len(rows)}

\* the edges a molecule calls for: a self-loop per atom, two per bond
ExpectedPairs(mol) ==
    {<<i, i>> : i \in 0..(Len(mol.atoms) - 1)}
      \cup {<<mol.bonds[k].begin, mol.bonds[k].end>> : k \in 1..Len(mol.bonds)}
      \cup {<<mol.bonds[k].end, mol.bonds[k].begin>> : k \in 1..Len(mol.bonds)}

\* C1: for a molecule with n atoms and m bonds graph_from_molecule returns n
\* node rows and n + 2m edges: the n self-loops (i, i) and, for each bond
\* {i, j}, the two directed edges (i, j) and (j, i), each exactly once.
C1_EdgeCount ==
    pc = "graph" =>
        LET n == Len(molecule.atoms)
            m == Len(molecule.bonds)
        IN  /\ Len(graph.atom_features) = n
            /\ Len(graph.pair_indices) = n + 2 * m
            /\ Len(graph.bond_features) = n + 2 * m
            /\ RowSet(graph.pair_indices) = ExpectedPairs(molecule)
            /\ Cardinality(ExpectedPairs(molecule)) = n + 2 * m

\* C1 witness: ethanol, the 3-atom chain 0-1-2, has been converted and has
\* exactly the seven edges of the example.
C1_Witness ==
    /\ pc = "graph"
    /\ molecule = molecule_from_smiles("CCO")
    /\ Len(graph.atom_features) = 3
    /\ {{molecule.bonds[k].begin, molecule.bonds[k].end} :
            k \in 1..Len(molecule.bonds)} = {{0, 1}, {1, 2}}
    /\ Len(graph.pair_indices) = 7
    /\ RowSet(graph.pair_indices) =
           {<<0, 0>>, <<1, 1>>, <<2, 2>>, <<0, 1>>, <<1, 0>>, <<1, 2>>, <<2, 1>>}

-----------------------------------------------------------------------------
(* Properties of prepare_batch.  LastX is the ragged batch the last call   *)
(* received; graph i of the batch (0-based) is row i + 1 of each part.     *)

Merged == batch # None
LastX == XBatch(batch_no)
BatchLen == Len(LastX[1])
NumAtoms(i) == Len(LastX[1][i + 1])
NumBonds(i) == Len(LastX[2][i + 1])

RECURSIVE NodeOffset(_)
\* n_0 + ... + n_{i-1}
NodeOffset(i) == IF i = 0 THEN 0 ELSE NodeOffset(i - 1) + NumAtoms(i - 1)

RECURSIVE EdgeOffset(_)
\* e_0 + ... + e_{i-1}
EdgeOffset(i) == IF i = 0 THEN 0 ELSE EdgeOffset(i - 1) + NumBonds(i - 1)

\* the feature vector of an absent bond: only the trailing slot is set
AbsentBond == [s \in 1..bond_featurizer.dim |->
                  IF s = bond_featurizer.dim THEN 1 ELSE 0]

\* every node 0..n-1 has a self-loop edge carrying the absent-bond vector
HasSelfLoops(n, pair_indices, bond_features) ==
    \A v \in 0..(n - 1) :
        \E k \in 1..Len(pair_indices) :
            pair_indices[k] = <<v, v>> /\ bond_features[k] = AbsentBond

\* C2: in every graph built by graph_from_molecule and in every global graph
\* output by prepare_batch each node v has a self-loop edge (v, v), and that
\* edge carries the absent-bond feature vector.
C2_SelfLoops ==
    /\ \A g \in 1..Len(atom_features_list) :
           HasSelfLoops(Len(atom_features_list[g]), pair_indices_list[g],
                        bond_features_list[g])
    /\ Merged =>
           HasSelfLoops(Len(batch.atom_features), batch.pair_indices,
                        batch.bond_features)

\* C2 witness: a global graph merged from three graphs, the last with bonds.
C2_Witness ==
    /\ Merged
    /\ BatchLen = 3
    /\ NumBonds(2) > NumAtoms(2)
    /\ HasSelfLoops(Len(batch.atom_features), batch.pair_indices,
                    batch.bond_features)

\* C3: every endpoint of every merged edge is a row index of the merged node
\* matrix, for every batch size.
C3_IndicesInRange ==
    Merged =>
        \A k \in 1..Len(batch.pair_indices) :
            \A c \in 1..2 :
                /\ 0 <= batch.pair_indices[k][c]
                /\ batch.pair_indices[k][c] < Len(batch.atom_features)

\* C3 witness: the whole data set in one batch of three graphs of which a
\* later one is larger than the first, merged with in-range edges.
C3_Witness ==
    /\ Merged
    /\ BatchLen = 3
    /\ BatchLen = Len(smiles_list)
    /\ NumAtoms(1) > NumAtoms(0)
    /\ \E k \in 1..Len(batch.pair_indices) :
           batch.pair_indices[k][1] = Len(batch.atom_features) - 1

\* the graph (0-based) whose edges hold position k (1-based) of the merge
EdgeGraph(k) ==
    CHOOSE i \in 0..(BatchLen - 1) :
        EdgeOffset(i) < k /\ k <= EdgeOffset(i) + NumBonds(i)

\* C4: no merged edge crosses two source graphs: both endpoints of an edge
\* of graph i are nodes the membership array assigns to graph i.
C4_NoCrossEdges ==
    Merged =>
        \A k \in 1..Len(batch.pair_indices) :
            /\ batch.atom_partition_indices[batch.pair_indices[k][1] + 1]
                   = EdgeGraph(k)
            /\ batch.atom_partition_indices[batch.pair_indices[k][2] + 1]
                   = EdgeGraph(k)

\* C4 witness: a merge of two graphs in which the second graph has a bond.
C4_Witness ==
    /\ Merged
    /\ BatchLen >= 2
    /\ \E k \in 1..Len(batch.pair_indices) :
           /\ EdgeGraph(k) = 1
           /\ batch.pair_indices[k][1] # batch.pair_indices[k][2]

\* C5: the membership array is graph index i repeated n_i times, i = 0..B-1
\* in order: non-decreasing, of length n_0 + ... + n_{B-1}, with value set
\* exactly {0, ..., B-1}.
C5_Membership ==
    Merged =>
        LET mem == batch.atom_partition_indices
        IN  /\ Len(mem) = NodeOffset(BatchLen)
            /\ \A i \in 0..(BatchLen - 1) :
                   \A a \in 1..NumAtoms(i) : mem[NodeOffset(i) + a] = i
            /\ \A p \in 1..(Len(mem) - 1) : mem[p] <= mem[p + 1]
            /\ {mem[p] : p \in 1..Len(mem)} = 0..(BatchLen - 1)

\* C5 witness: a membership array over three graphs of different sizes.
C5_Witness ==
    /\ Merged
    /\ BatchLen = 3
    /\ NumAtoms(0) # NumAtoms(1)
    /\ Len(batch.atom_partition_indices) = NodeOffset(3)
    /\ batch.atom_partition_indices[NodeOffset(3)] = 2

\* a merged graph extended by one more graph: its edge indices offset by the
\* node count so far, its nodes given the next graph index
AppendGraph(merged, atom_features, pair_indices) ==
    [pair_indices |->
        merged.pair_indices \o
            [k \in 1..Len(pair_indices) |->
                <<pair_indices[k][1] + Len(merged.atom_features),
                  pair_indices[k][2] + Len(merged.atom_features)>>],
     atom_partition_indices |->
        merged.atom_partition_indices \o
            [a \in 1..Len(atom_features) |->
                IF merged.atom_partition_indices = <<>> THEN 0
                ELSE merged.atom_partition_indices[
                         Len(merged.atom_partition_indices)] + 1]]

\* C6: merging all but the last graph of a batch and then appending the last
\* one gives the edge indices and membership array of merging the batch
\* directly.
C6_Associative ==
    (Merged /\ BatchLen >= 2) =>
        LET front == << DropLast(LastX[1]), DropLast(LastX[2]),
                        DropLast(LastX[3]) >>
            ab == prepare_batch(front, DropLast(batch.y_batch))
            abc == AppendGraph(ab, LastX[1][BatchLen], LastX[3][BatchLen])
        IN  /\ batch.pair_indices = abc.pair_indices
            /\ batch.atom_partition_indices = abc.atom_partition_indices

\* C6 witness: three graphs [A, B, C] merged directly, A and B of different
\* sizes and C with a bond.
C6_Witness ==
    /\ Merged
    /\ BatchLen = 3
    /\ NumAtoms(0) # NumAtoms(1)
    /\ NumBonds(2) > NumAtoms(2)

\* C10: the merged edge at the position of local edge (a, b) of graph i is
\* (a + offset_i, b + offset_i), offset_i = n_0 + ... + n_{i-1}, and merged
\* node row offset_i + a holds the features of node a of graph i.
C10_Rebase ==
    Merged =>
        \A i \in 0..(BatchLen - 1) :
            /\ \A j \in 1..NumBonds(i) :
                   batch.pair_indices[EdgeOffset(i) + j] =
                       << LastX[3][i + 1][j][1] + NodeOffset(i),
                          LastX[3][i + 1][j][2] + NodeOffset(i) >>
            /\ \A a \in 0..(NumAtoms(i) - 1) :
                   batch.atom_features[NodeOffset(i) + a + 1] =
                       LastX[1][i + 1][a + 1]

\* C10 witness: the third graph of a batch has a bond edge re-based by the
\* node counts of the two graphs before it.
C10_Witness ==
    /\ Merged
    /\ BatchLen = 3
    /\ \E j \in 1..NumBonds(2) :
           /\ LastX[3][3][j] = <<0, 1>>
           /\ batch.pair_indices[EdgeOffset(2) + j] =
                  <<NumAtoms(0) + NumAtoms(1), NumAtoms(0) + NumAtoms(1) + 1>>

-----------------------------------------------------------------------------
(* Properties of Featurizer (the atom_featurizer instance).                *)

\* a featurizer built from allowable_sets gives every (category, allowed
\* value) pair its own slot among 0 .. (total number of allowed values) - 1
DistinctSlots(allowable_sets, self) ==
    LET total == SumSeq([c \in 1..Len(allowable_sets) |->
                            Cardinality(allowable_sets[c].values)])
        slots(c) == {self.features_mapping[c].mapping[v] :
                        v \in allowable_sets[c].values}
    IN  /\ self.dim = total
        /\ \A c \in 1..Len(allowable_sets) :
               /\ self.features_mapping[c].name = allowable_sets[c].name
               /\ DOMAIN self.features_mapping[c].mapping
                      = allowable_sets[c].values
               /\ slots(c) \subseteq 0..(total - 1)
               /\ Cardinality(slots(c)) = Cardinality(allowable_sets[c].values)
               /\ \A c2 \in 1..Len(allowable_sets) :
                      c2 # c => slots(c) \cap slots(c2) = {}

\* the categories, 1..4, and the allowed values and slots of each
Categories == 1..Len(atom_allowable_sets)
Allowed(c) == atom_allowable_sets[c].values
SlotOf(c, v) == atom_featurizer.features_mapping[c].mapping[v]
CategorySlots(c) == {SlotOf(c, v) : v \in Allowed(c)}
TotalAllowed == SumSeq([c \in Categories |-> Cardinality(Allowed(c))])

\* the value of category c of an item
ValueOf(c, item) == getattr_call(atom_allowable_sets[c].name, item)
InVocabulary(c, item) == ValueOf(c, item) \in Allowed(c)

\* the slots (0-based) of category c that a vector sets to 1
OnSlots(c, vec) == {sl \in CategorySlots(c) : vec[sl + 1] = 1}

\* C8: each (category, allowed value) pair has its own slot in a vector of
\* length = total number of allowed values, and encoding an item that is in
\* vocabulary in every category sets exactly the slot of each category's
\* value to 1 and every other slot to 0.
C8_OneHot ==
    /\ DistinctSlots(atom_allowable_sets, atom_featurizer)
    /\ DistinctSlots(bond_allowable_sets, Featurizer_init(bond_allowable_sets))
    /\ (pc = "encoded" /\ \A c \in Categories : InVocabulary(c, enc_in)) =>
           /\ Len(enc_out) = TotalAllowed
           /\ \A c \in Categories :
                  OnSlots(c, enc_out) = {SlotOf(c, ValueOf(c, enc_in))}
           /\ \A sl \in 1..Len(enc_out) : enc_out[sl] \in {0, 1}
           /\ SumSeq(enc_out) = Len(atom_allowable_sets)

\* C8 witness: carbon with valence 4, no hydrogens, sp3 has been encoded with
\* one slot set per category.
C8_Witness ==
    /\ pc = "encoded"
    /\ enc_in = Atom("C", 4, 0, "SP3")
    /\ SumSeq(enc_out) = 4
    /\ \A c \in Categories : Cardinality(OnSlots(c, enc_out)) = 1

\* C9: when some category of the item is out of vocabulary, encode still
\* returns a vector: all slots of such a category are 0 and the slots of
\* every other category are set as for an in-vocabulary value.
C9_OutOfVocabulary ==
    (pc = "encoded" /\ \E c \in Categories : ~InVocabulary(c, enc_in)) =>
        /\ Len(enc_out) = atom_featurizer.dim
        /\ \A sl \in 1..Len(enc_out) : enc_out[sl] \in {0, 1}
        /\ \A c \in Categories :
               IF InVocabulary(c, enc_in)
               THEN OnSlots(c, enc_out) = {SlotOf(c, ValueOf(c, enc_in))}
               ELSE OnSlots(c, enc_out) = {}

\* C9 witness: an atom whose symbol is out of vocabulary has been encoded;
\* no symbol slot is set and the three other categories are.
C9_Witness ==
    /\ pc = "encoded"
    /\ enc_in = Atom("Si", 4, 0, "SP3")
    /\ OnSlots(1, enc_out) = {}
    /\ SumSeq(enc_out) = 3

-----------------------------------------------------------------------------
(* Properties of BondFeaturizer (the bond_featurizer instance).            *)

BondCategories == 1..Len(bond_allowable_sets)
BondAllowed(c) == bond_allowable_sets[c].values
TotalBondAllowed ==
    SumSeq([c \in BondCategories |-> Cardinality(BondAllowed(c))])
BondValueOf(c, bond) == getattr_call(bond_allowable_sets[c].name, bond)
BondSlotOf(c, v) == bond_featurizer.features_mapping[c].mapping[v]

\* the slots (0-based) of bond category c that a vector sets to 1
BondOnSlots(c, vec) ==
    {sl \in {BondSlotOf(c, v) : v \in BondAllowed(c)} : vec[sl + 1] = 1}

\* C11: bond_featurizer.encode returns a vector of length (total allowed bond
\* values) + 1 in both cases; for an absent bond only the trailing slot is 1;
\* for a present bond the trailing slot is 0 and the category slots are those
\* of the base encoding: the slot of each in-vocabulary value, nothing else.
C11_BondEncode ==
    pc = "encoded_bond" =>
        /\ Len(enc_out) = TotalBondAllowed + 1
        /\ \A sl \in 1..Len(enc_out) : enc_out[sl] \in {0, 1}
        /\ IF enc_in = None
           THEN \A sl \in 1..Len(enc_out) :
                    enc_out[sl] = 1 <=> sl = TotalBondAllowed + 1
           ELSE /\ enc_out[TotalBondAllowed + 1] = 0
                /\ SubSeq(enc_out, 1, TotalBondAllowed) =
                       Featurizer_encode(Featurizer_init(bond_allowable_sets),
                                         enc_in)
                /\ \A c \in BondCategories :
                       BondOnSlots(c, enc_out) =
                           IF BondValueOf(c, enc_in) \in BondAllowed(c)
                           THEN {BondSlotOf(c, BondValueOf(c, enc_in))}
                           ELSE {}

\* C11 witness: a present bond, conjugated and double, has been encoded to a
\* vector of the length of the absent-bond vector, with its two category
\* slots set and the trailing slot clear.
C11_Witness ==
    /\ pc = "encoded_bond"
    /\ enc_in = Bond(0, 1, "DOUBLE", TRUE)
    /\ Len(enc_out) = Len(BondFeaturizer_encode(bond_featurizer, None))
    /\ enc_out = <<0, 1, 0, 0, 0, 1, 0>>

-----------------------------------------------------------------------------
(* Properties of MessagePassing.                                           *)

\* the relabelings of the nodes 0..n-1
NodePerms(n) ==
    {p \in [0..(n - 1) -> 0..(n - 1)] :
        \A a, b \in 0..(n - 1) : a # b => p[a] # p[b]}

\* the edge positions of a graph relabeled by p, grouped by the new first
\* index and otherwise in their old order
RelabeledEdgeOrder(pair_indices, n, p) ==
    Flatten([v \in 1..n |->
                SelectSeq([k \in 1..Len(pair_indices) |-> k],
                          LAMBDA k : p[pair_indices[k][1]] = v - 1)])

\* the graph relabeled by p: node row v moves to row p[v], edge (s, t)
\* becomes (p[s], p[t]) and keeps its features, edges permuted as above
Relabel(inputs, p) ==
    LET n == Len(inputs.atom_features)
        order == RelabeledEdgeOrder(inputs.pair_indices, n, p)
    IN  [atom_features |->
            [v \in 1..n |->
                inputs.atom_features[(CHOOSE u \in 0..(n - 1) : p[u] = v - 1) + 1]],
         bond_features |->
            [j \in 1..Len(order) |-> inputs.bond_features[order[j]]],
         pair_indices |->
            [j \in 1..Len(order) |->
                << p[inputs.pair_indices[order[j]][1]],
                   p[inputs.pair_indices[order[j]][2]] >>]]

\* the matrix of node states with row v moved to row p[v]
PermuteRows(rows, p) ==
    [v \in 1..Len(rows) |->
        rows[(CHOOSE u \in 0..(Len(rows) - 1) : p[u] = v - 1) + 1]]

\* C7: message passing is permutation-equivariant: for every relabeling p of
\* the nodes, MessagePassing on the relabeled graph runs and returns the
\* final node states of the original graph with row v moved to row p[v].
C7_Equivariant ==
    pc = "mp_done" =>
        \A p \in NodePerms(Len(mp_inputs.atom_features)) :
            \A relabeled \in {Relabel(mp_inputs, p)} :
                /\ ~MessagePassing_step_raises(
                       pad_features(relabeled.atom_features,
                                    mp_weights.pad_length),
                       relabeled.bond_features, relabeled.pair_indices)
                /\ MessagePassing_call(mp_weights, relabeled)
                       = PermuteRows(atom_features_updated, p)

\* C7 witness: message passing has finished on a 3-node graph with a bond,
\* and some relabeling changes both the graph and the final node states.
C7_Witness ==
    /\ pc = "mp_done"
    /\ Len(mp_inputs.atom_features) = 3
    /\ Len(mp_inputs.pair_indices) > 3
    /\ \E p \in NodePerms(3) :
           /\ Relabel(mp_inputs, p) # mp_inputs
           /\ PermuteRows(atom_features_updated, p) # atom_features_updated
           /\ MessagePassing_call(mp_weights, Relabel(mp_inputs, p))
                  = PermuteRows(atom_features_updated, p)

-----------------------------------------------------------------------------
(* Properties of one message-passing step.                                 *)

\* the message of edge k: the edge's matrix applied to the state that the
\* edge's second index has in the matrix of node states
EdgeMessage(states, bond_features, pair_indices, k) ==
    edge_transform(bond_features[k], states[pair_indices[k][2] + 1])

\* the sum of the messages of the edges at the positions K, added in the
\* order of their positions
SumMessages(states, bond_features, pair_indices, K) ==
    LET ks == SelectSeq([k \in 1..Len(pair_indices) |-> k],
                        LAMBDA k : k \in K)
    IN  [summands |->
            [j \in 1..Len(ks) |->
                EdgeMessage(states, bond_features, pair_indices, ks[j])]]

\* the edge positions whose first index is v
EdgesFrom(pair_indices, v) ==
    {k \in 1..Len(pair_indices) : pair_indices[k][1] = v}

\* C12: in each message-passing step the aggregate stored at row v is the sum,
\* over exactly the edges whose first index is v, of the edge's matrix applied
\* to the current state of the edge's second index; there is one row per
\* node, and every edge is counted in exactly one row.
C12_Aggregation ==
    [][(pc = "mp_loop" /\ pc' # "mp_error") =>
          LET n == Len(atom_features_updated)
              pairs == mp_inputs.pair_indices
          IN  /\ Len(atom_features_aggregated') = n
              /\ \A v \in 0..(n - 1) :
                     atom_features_aggregated'[v + 1] =
                         SumMessages(atom_features_updated,
                                     mp_inputs.bond_features, pairs,
                                     EdgesFrom(pairs, v))
              /\ \A k \in 1..Len(pairs) :
                     Cardinality({v \in 0..(n - 1) : k \in EdgesFrom(pairs, v)})
                         = 1
              /\ Flatten([v \in 1..n |->
                              atom_features_aggregated'[v].summands])
                     = SumMessages(atom_features_updated,
                                   mp_inputs.bond_features, pairs,
                                   1..Len(pairs)).summands]_vars

\* C12 witness: a step has aggregated over a batch of two graphs; the middle
\* node of the three-node chain has three edges, one of them its self-loop,
\* and its aggregate is the sum of three messages from three different states.
C12_Witness ==
    /\ pc = "mp_loop"
    /\ mp_i = 2
    /\ batch # None
    /\ Len(batch.y_batch) = 2
    /\ \E v \in 0..(Len(atom_features_updated) - 1) :
           /\ Cardinality(EdgesFrom(mp_inputs.pair_indices, v)) = 3
           /\ Len(atom_features_aggregated[v + 1].summands) = 3
           /\ Cardinality({atom_features_aggregated[v + 1].summands[j]
                               .atom_features_neighbors : j \in 1..3}) = 3
           /\ \E k \in EdgesFrom(mp_inputs.pair_indices, v) :
                  /\ mp_inputs.pair_indices[k] = <<v, v>>
                  /\ mp_inputs.bond_features[k] = AbsentBond

-----------------------------------------------------------------------------
(* Properties of the message-passing loop.                                 *)

RECURSIVE Within(_, _, _, _)
\* node u is reached from node v along at most t edges
Within(pair_indices, v, u, t) ==
    \/ u = v
    \/ /\ t > 0
       /\ \E k \in 1..Len(pair_indices) :
              /\ pair_indices[k][1] = v
              /\ pair_indices[k][2] # v
              /\ Within(pair_indices, pair_indices[k][2], u, t - 1)

\* the nodes within graph distance t of node v
Ball(pair_indices, v, t) ==
    {u \in {pair_indices[k][1] : k \in 1..Len(pair_indices)} :
        Within(pair_indices, v, u, t)}

\* the inputs with every initial feature of node u changed (0.0 <-> 1.0)
FlipNode(inputs, u) ==
    [inputs EXCEPT
        !.atom_features[u + 1] =
            [c \in 1..Len(inputs.atom_features[u + 1]) |->
                1 - inputs.atom_features[u + 1][c]]]

\* the node states after t iterations of the loop of MessagePassing.call
StatesAfter(w, inputs, t) ==
    MessagePassing_loop(pad_features(inputs.atom_features, w.pad_length),
                        inputs.bond_features, inputs.pair_indices, steps - t)

\* one iteration: every node's new state is the cell applied to the aggregate
\* of the previous states (input) and the node's own previous state (state)
StepIsSynchronous ==
    (pc = "mp_loop" /\ pc' # "mp_error") =>
        /\ mp_i' = mp_i + 1
        /\ (pc' = "mp_done") <=> (mp_i' = steps)
        /\ Len(atom_features_updated') = Len(atom_features_updated)
        /\ \A v \in 0..(Len(atom_features_updated) - 1) :
               atom_features_updated'[v + 1] =
                   GRUCell_row(
                       SumMessages(atom_features_updated,
                                   mp_inputs.bond_features,
                                   mp_inputs.pair_indices,
                                   EdgesFrom(mp_inputs.pair_indices, v)),
                       atom_features_updated[v + 1])

\* after mp_i iterations the state of node v is unchanged by a change of the
\* initial state of any node u farther than mp_i from v; such a u includes
\* every node of another graph of the batch
StateIsLocal ==
    pc \in {"mp_loop", "mp_done"} =>
        /\ mp_i <= steps
        /\ (pc = "mp_done") <=> (mp_i = steps)
        /\ \A u \in 0..(Len(atom_features_updated) - 1) :
               \A alt \in {StatesAfter(mp_weights, FlipNode(mp_inputs, u), mp_i)} :
                   \A v \in 0..(Len(atom_features_updated) - 1) :
                       /\ u \notin Ball(mp_inputs.pair_indices, v, mp_i) =>
                              alt[v + 1] = atom_features_updated[v + 1]
                       /\ batch.atom_partition_indices[u + 1]
                              # batch.atom_partition_indices[v + 1] =>
                              u \notin Ball(mp_inputs.pair_indices, v, mp_i)

\* C13: message passing is synchronous and runs exactly `steps` iterations:
\* each iteration computes every node's new state from the states all nodes
\* had before it (aggregate as the cell's input, own previous state as its
\* state), so after t iterations the state of node v depends only on the
\* initial states of the nodes within distance t of v, and never on a node
\* of another graph of the batch.
C13_Synchronous == [][StepIsSynchronous]_vars /\ []StateIsLocal

\* C13 witness: after one iteration on a batch of two graphs, an end node v of
\* the three-node chain has a state that changes with the initial state of
\* its neighbor, but not with that of the node at distance 2 nor with that of
\* the node of the other graph.
C13_Witness ==
    /\ pc = "mp_loop"
    /\ mp_i = 1
    /\ batch # None
    /\ Len(batch.y_batch) = 2
    /\ \E v, u1, u2, u3 \in 0..(Len(atom_features_updated) - 1) :
           /\ u1 \in Ball(mp_inputs.pair_indices, v, 1) \ {v}
           /\ u2 \in Ball(mp_inputs.pair_indices, v, 2)
                      \ Ball(mp_inputs.pair_indices, v, 1)
           /\ batch.atom_partition_indices[u3 + 1]
                  # batch.atom_partition_indices[v + 1]
           /\ \E a1 \in {StatesAfter(mp_weights, FlipNode(mp_inputs, u1), 1)},
                 a2 \in {StatesAfter(mp_weights, FlipNode(mp_inputs, u2), 1)},
                 a3 \in {StatesAfter(mp_weights, FlipNode(mp_inputs, u3), 1)},
                 b0 \in {StatesAfter(mp_weights, mp_inputs, 2)},
                 b2 \in {StatesAfter(mp_weights, FlipNode(mp_inputs, u2), 2)} :
                  /\ a1[v + 1] # atom_features_updated[v + 1]
                  /\ a2[v + 1] = atom_features_updated[v + 1]
                  /\ a3[v + 1] = atom_features_updated[v + 1]
                  /\ b2[v + 1] # b0[v + 1]

-----------------------------------------------------------------------------
(* Properties of PartitionPadding.                                         *)

\* the rows (1-based) of the global node matrix whose membership index is i
NodesOf(mem, i) == {q \in 1..Len(mem) : mem[q] = i}

\* the j-th of them in global order
NthNodeOf(mem, i, j) ==
    CHOOSE q \in NodesOf(mem, i) :
        Cardinality({r \in NodesOf(mem, i) : r <= q}) = j

\* the largest number of nodes of a graph of the batch
MaxNodes(mem, num_segments) ==
    CHOOSE m \in 0..Len(mem) :
        /\ \A i \in 0..(num_segments - 1) : Cardinality(NodesOf(mem, i)) <= m
        /\ \E i \in 0..(num_segments - 1) : Cardinality(NodesOf(mem, i)) = m

\* every entry of the segment is zero
AllZero(segment) ==
    \A r \in 1..Len(segment) : \A c \in 1..Len(segment[r]) : segment[r][c] = 0

\* C14: before the empty-segment filter the stacked tensor has batch_size
\* segments of max n_i rows each; segment i holds in its first n_i rows the
\* states of the nodes whose membership index is i, in their global order
\* (for a graph i of the batch: rows offset_i .. offset_i + n_i - 1), and
\* zero rows after them.
C14_PartitionInverse ==
    pc = "readout" =>
        LET mem == pp_inputs.atom_partition_indices
            width == Len(pp_inputs.atom_features[1])
            rows == MaxNodes(mem, batch_size)
        IN  /\ Len(atom_features_padded) = batch_size
            /\ \A i \in 0..(batch_size - 1) :
                   LET n_i == Cardinality(NodesOf(mem, i))
                       segment == atom_features_padded[i + 1]
                   IN  /\ Len(segment) = rows
                       /\ \A j \in 1..n_i :
                              segment[j] =
                                  pp_inputs.atom_features[NthNodeOf(mem, i, j)]
                       /\ \A j \in (n_i + 1)..rows :
                              segment[j] = np_zeros(width)
            /\ \A i \in 0..(BatchLen - 1) :
                   /\ Cardinality(NodesOf(mem, i)) = NumAtoms(i)
                   /\ \A a \in 0..(NumAtoms(i) - 1) :
                          atom_features_padded[i + 1][a + 1] =
                              pp_inputs.atom_features[NodeOffset(i) + a + 1]

\* C14 witness: a batch of a one-node and a two-node graph has been
\* partitioned; the first segment is its node's non-zero state followed by
\* a zero row, the second segment is the two states of the other graph,
\* which differ.
C14_Witness ==
    /\ pc = "readout"
    /\ BatchLen = 2
    /\ NumAtoms(0) = 1
    /\ NumAtoms(1) = 2
    /\ pp_inputs.atom_partition_indices = batch.atom_partition_indices
    /\ pp_inputs.atom_features[2] # pp_inputs.atom_features[3]
    /\ pp_inputs.atom_features[1] # np_zeros(Len(pp_inputs.atom_features[1]))
    /\ atom_features_padded[1] =
           << pp_inputs.atom_features[1],
              np_zeros(Len(pp_inputs.atom_features[1])) >>
    /\ atom_features_padded[2] = SubSeq(pp_inputs.atom_features, 2, 3)

\* the segments of a stacked tensor at the positions K, in their order
SegmentsAt(stacked, K) ==
    LET ks == SelectSeq([i \in 1..Len(stacked) |-> i], LAMBDA i : i \in K)
    IN  [j \in 1..Len(ks) |-> stacked[ks[j]]]

\* C15: PartitionPadding removes every all-zero segment of the stacked
\* tensor: the segments it returns are segments of the stacked tensor in
\* their original order, none of them all-zero; every placeholder segment
\* (index >= the number of graphs of the batch) is all-zero and removed.
C15_DropsEmpty ==
    pc = "readout" =>
        /\ \E K \in SUBSET (1..Len(atom_features_padded)) :
               /\ x_partitioned = SegmentsAt(atom_features_padded, K)
               /\ \A i \in 1..Len(atom_features_padded) :
                      AllZero(atom_features_padded[i]) => i \notin K
        /\ \A j \in 1..Len(x_partitioned) : ~AllZero(x_partitioned[j])
        /\ \A i \in (BatchLen + 1)..batch_size :
               AllZero(atom_features_padded[i])

\* C15 witness: a trailing batch of two graphs in a layer of batch_size 3:
\* the placeholder segment has been removed and the two segments of the
\* graphs, which differ, are returned in their order.
C15_Witness ==
    /\ pc = "readout"
    /\ BatchLen = 2
    /\ batch_size = 3
    /\ Len(atom_features_padded) = 3
    /\ AllZero(atom_features_padded[3])
    /\ atom_features_padded[1] # atom_features_padded[2]
    /\ x_partitioned = <<atom_features_padded[1], atom_features_padded[2]>>

\* C18: for every batch of B graphs PartitionPadding returns exactly B
\* segments, the j-th holding the node states of graph j; a segment with a
\* non-zero entry is never removed by the empty-segment filter.
C18_OnePerGraph ==
    pc = "readout" =>
        /\ Len(x_partitioned) = BatchLen
        /\ \A j \in 1..BatchLen :
               /\ j <= Len(x_partitioned)
               /\ x_partitioned[j] = atom_features_padded[j]
        /\ \A i \in 1..Len(atom_features_padded) :
               ~AllZero(atom_features_padded[i]) =>
                   \E j \in 1..Len(x_partitioned) :
                       x_partitioned[j] = atom_features_padded[i]

-----------------------------------------------------------------------------
(* The order of the edge list.                                             *)

\* pair_indices[:, 0]
SrcColumn(pair_indices) == [k \in 1..Len(pair_indices) |-> pair_indices[k][1]]

\* the first column of the edge list of a graph of n nodes is non-decreasing
\* and ends with n - 1; segment_sum accepts it and returns n rows, the number
\* of rows of the node-state matrix, so the cell accepts the aggregate
SrcSorted(pair_indices, n) ==
    LET src == SrcColumn(pair_indices)
        ones == [k \in 1..Len(src) |-> <<1>>]
        node_states == [v \in 1..n |-> <<0>>]
    IN  /\ \A k \in 1..(Len(src) - 1) : src[k] <= src[k + 1]
        /\ Len(src) >= 1
        /\ src[Len(src)] = n - 1
        /\ ~segment_sum_raises(src)
        /\ Len(segment_sum(ones, src)) = n
        /\ ~GRUCell_raises(segment_sum(ones, src), node_states)

\* C17: in every graph built by graph_from_molecule, and in every global
\* graph merged by prepare_batch, the first column of the edge list is
\* non-decreasing and its last value is N - 1, so that the segment sum of
\* EdgeNetwork is given sorted ids and returns N rows, one per node.
C17_SrcSorted ==
    /\ \A g \in 1..Len(pair_indices_list) :
           SrcSorted(pair_indices_list[g], Len(atom_features_list[g]))
    /\ Merged => SrcSorted(batch.pair_indices, Len(batch.atom_features))

\* C17 witness: three graphs, the first two with bonds, have been merged; the
\* first column of the merged edge list takes every node index in turn and
\* ends with the last node.
C17_Witness ==
    /\ Merged
    /\ BatchLen = 3
    /\ NumBonds(0) > NumAtoms(0)
    /\ NumBonds(1) > NumAtoms(1)
    /\ {batch.pair_indices[k][1] : k \in 1..Len(batch.pair_indices)}
           = 0..(Len(batch.atom_features) - 1)
    /\ batch.pair_indices[Len(batch.pair_indices)][1]
           = NodeOffset(3) - 1
    /\ \E k \in 1..Len(batch.pair_indices) :
           batch.pair_indices[k][2] < batch.pair_indices[k][1]

-----------------------------------------------------------------------------
(* Properties of molecule_from_smiles.                                     *)

\* the first pass is over
FirstPassDone == pc \in {"flag", "stereo", "raised", "returned"}

\* the retry is over
RetryDone == FirstPassDone /\ flag # SANITIZE_NONE /\ pc # "flag"

\* the calls of Chem.SanitizeMol so far are what the retry policy asks for: a
\* first pass over every operation that catches errors; no second call when
\* it reports no failure; otherwise exactly one more call, over every
\* operation of SANITIZE_ALL except the reported one
RetryPolicy ==
    FirstPassDone =>
        /\ sanitize_calls[1] =
               [sanitizeOps |-> SANITIZE_ALL, catchErrors |-> TRUE]
        /\ flag = SANITIZE_NONE => Len(sanitize_calls) = 1
        /\ (flag # SANITIZE_NONE /\ pc = "flag") => Len(sanitize_calls) = 1
        /\ RetryDone =>
               /\ Len(sanitize_calls) = 2
               /\ BitAnd(sanitize_calls[2].sanitizeOps, flag) = 0
               /\ sanitize_calls[2].sanitizeOps + flag = SANITIZE_ALL
               /\ flag \notin molecule.sanitized
        /\ pc = "returned" => molecule.stereo

\* C16 as stated: after a first pass that reports a failing check the
\* sanitization is retried exactly once without that check and the molecule
\* is returned: the call never ends in an exception.
C16_Recovers == RetryPolicy /\ pc # "raised"

\* C16: when the first pass reports a failing check, sanitization is retried
\* exactly once with every check except the reported one; the molecule is
\* returned if no other check fails in the retry, and the retry's exception
\* leaves the function exactly when another check fails; when the first pass
\* reports no failure there is no retry and the molecule is returned.
C16_RetryOnce ==
    /\ RetryPolicy
    /\ RetryDone =>
           (pc = "raised" <=> molecule.fails \ {flag} # {})
    /\ pc = "raised" => (flag # SANITIZE_NONE /\ ~molecule.stereo)
    /\ (FirstPassDone /\ flag = SANITIZE_NONE) => molecule.fails = {}

\* C16 witness: the valence check failed in the first pass, the retry ran
\* every other operation, and the molecule was returned.
C16_Witness ==
    /\ pc = "returned"
    /\ flag = SANITIZE_PROPERTIES
    /\ Len(sanitize_calls) = 2
    /\ sanitize_calls[2].sanitizeOps = SANITIZE_ALL - SANITIZE_PROPERTIES
    /\ SANITIZE_KEKULIZE \in molecule.sanitized
    /\ SANITIZE_PROPERTIES \notin molecule.sanitized

====
